---- MODULE Spec2Model ----
\* hako: the container bring-up pipeline of src/main.rs.
\*   P0 = the process running `create` (main -> create),
\*   P1 = the intermediate process (intermediate_process),
\*   P2 = the init process (init_process), later the user program,
\*   start invocations = separate runs of `hako start <id>`.
\* Byte strings (messages, file contents, paths) are sequences of
\* one-character strings.
EXTENDS Integers, Sequences, FiniteSets, TLC

\* ------------------------------------------------------------------ bounds
NumStarts == 2      \* concurrent `start` invocations
MaxTail   == 2      \* varying characters at the end of a container id
PadLen    == 8      \* length of the fixed head of a long container id
MaxNs     == 2      \* entries of a linux.namespaces list

\* ------------------------------------------------------- program constants
TakeLen       == 10   \* .chars().take(10)
ListenBacklog == 1    \* Backlog::new(1)
RecvBufLen    == 1024 \* vec![0; 1024]

HAKO_ROOT == <<"/", "r", "u", "n", "/", "h", "a", "k", "o">>
EXEC_SOCK == <<"e", "x", "e", "c", ".", "s", "o", "c", "k">>
READY     == <<"r", "e", "a", "d", "y">>

\* Markers for "no value yet"; sequences and sets, so that they compare with
\* the values they stand in for.
Null      == <<"null">>
NoFile    == <<"absent">>
NotCalled == {"not_called"}

Procs  == {"P0", "P1", "P2"}
Starts == 1 .. NumStarts

Min(a, b) == IF a < b THEN a ELSE b

Range(s) == {s[i] : i \in DOMAIN s}

\* ------------------------------------------------------------ pure helpers

\* Iterator::take(n) followed by collect::<String>(): walks the characters
\* from the front and stops after n of them or at the end of the string.
RECURSIVE TakeChars(_, _)
TakeChars(s, n) ==
    IF n = 0 \/ s = <<>> THEN <<>>
    ELSE <<Head(s)>> \o TakeChars(Tail(s), n - 1)

\* Path::join / PathBuf::push: an absolute argument replaces the base,
\* otherwise it is appended after a separator (added when the base does not
\* already end with one).
PathJoin(base, p) ==
    IF p # <<>> /\ p[1] = "/" THEN p
    ELSE IF base = <<>> \/ base[Len(base)] = "/" THEN base \o p
    ELSE base \o <<"/">> \o p

\* init_process: container_root and socket_path. ctx.root is not consulted.
InitContainerRoot(ctx) ==
    PathJoin(HAKO_ROOT, TakeChars(ctx.container_id, TakeLen))

InitSocketPath(ctx) == PathJoin(InitContainerRoot(ctx), EXEC_SOCK)

\* StartContainerRoot cutting the id one character short.
StartContainerRootShort(root, container_id) ==
    PathJoin(HAKO_ROOT, TakeChars(container_id, TakeLen - 1))

\* main, Commands::Start: container_root and socket_path. cli.root is not
\* consulted.
StartContainerRoot(root, container_id) ==
    PathJoin(HAKO_ROOT, TakeChars(container_id, TakeLen))

StartSocketPath(root, container_id) ==
    PathJoin(StartContainerRoot(root, container_id), EXEC_SOCK)

\* Pid::to_string(): decimal digits, most significant first, no sign for a
\* positive pid.
DigitChars == <<"0", "1", "2", "3", "4", "5", "6", "7", "8", "9">>

RECURSIVE ToDecimal(_)
ToDecimal(n) ==
    IF n < 10 THEN <<DigitChars[n + 1]>>
    ELSE ToDecimal(n \div 10) \o <<DigitChars[(n % 10) + 1]>>

\* NsFlag that does not know the cgroup type.
NsFlagNoCgroup(t) ==
    CASE t = "pid"     -> {"CLONE_NEWPID"}
      [] t = "network" -> {"CLONE_NEWNET"}
      [] t = "mount"   -> {"CLONE_NEWNS"}
      [] t = "ipc"     -> {"CLONE_NEWIPC"}
      [] t = "uts"     -> {"CLONE_NEWUTS"}
      [] t = "user"    -> {"CLONE_NEWUSER"}
      [] OTHER         -> {}

\* Linux::clone_flags: map every namespace type to its flag (unknown types to
\* the empty set) and fold with bitwise or.
NsFlag(t) ==
    CASE t = "pid"     -> {"CLONE_NEWPID"}
      [] t = "network" -> {"CLONE_NEWNET"}
      [] t = "mount"   -> {"CLONE_NEWNS"}
      [] t = "ipc"     -> {"CLONE_NEWIPC"}
      [] t = "uts"     -> {"CLONE_NEWUTS"}
      [] t = "user"    -> {"CLONE_NEWUSER"}
      [] t = "cgroup"  -> {"CLONE_NEWCGROUP"}
      [] OTHER         -> {}

RECURSIVE clone_flags(_)
clone_flags(namespaces) ==
    IF namespaces = <<>> THEN {}
    ELSE NsFlag(Head(namespaces)) \cup clone_flags(Tail(namespaces))

\* intermediate_process: linux.clone_flags() & CLONE_NEWPID
P1UnshareFlags(linux) == clone_flags(linux) \cap {"CLONE_NEWPID"}

\* init_process: linux.clone_flags() & !CLONE_NEWPID
P2UnshareFlags(linux) == clone_flags(linux) \ {"CLONE_NEWPID"}

\* write!(file, ..) on a file opened with create(true).write(true): the bytes
\* go to offset 0 and whatever lay beyond them stays.
WriteAtStart(old, bytes) ==
    bytes \o SubSeq(old, Len(bytes) + 1, Len(old))

\* SockPairFlags without close-on-exec.
SockPairFlagsNone == {}

\* socketpair(.., SockFlag::SOCK_CLOEXEC) and socket(.., SOCK_CLOEXEC, ..)
SockPairFlags == {"CLOEXEC"}
ExecSockFlags == {"CLOEXEC"}

\* --------------------------------------------------------------- inputs

\* Container ids (non-empty): a short id, or a fixed head of PadLen
\* characters, each followed by up to MaxTail + 1 free characters; with
\* PadLen = 8 the long ones straddle the ten-character cut.
Chars == {"a", "b", "/"}

RECURSIVE Strings(_)
Strings(n) ==
    IF n = 0 THEN {<<>>}
    ELSE LET shorter == Strings(n - 1)
         IN shorter \cup {Append(s, c) : s \in shorter, c \in Chars}

Pad(n) == [i \in 1 .. n |-> "c"]

Ids == {Pad(n) \o t : n \in {0, PadLen}, t \in Strings(MaxTail + 1)} \ {<<>>}

Roots == {HAKO_ROOT, <<"/", "t", "m", "p">>}

\* The id used with the process model, by create and by every start.
CreatedId == Pad(TakeLen) \o <<"a">>
MainIds   == {CreatedId}

\* config.json as Spec::try_from finds it.
ConfigFiles == {"valid", "no_args", "unreadable"}

\* linux: absent, or a namespace list.
NoLinux == <<"no_linux">>
MainLinux == {NoLinux, <<"pid", "mount">>}

\* Namespace lists of up to n entries over a set of type strings, duplicates
\* and the empty list included.
RECURSIVE NsLists(_, _)
NsLists(types, n) ==
    IF n = 0 THEN {<<>>}
    ELSE LET shorter == NsLists(types, n - 1)
         IN shorter \cup {Append(l, ty) : l \in shorter, ty \in types}

\* The type strings clone_flags knows, and one it does not.
NsTypes == {"pid", "network", "mount", "ipc", "uts", "user", "cgroup", "bogus"}

\* The type strings used with the process model: the one P1 enters and one
\* P2 enters.
NsTypesSplit == {"pid", "mount"}

\* The pid fork returns in P1, and what the pid file may hold beforehand.
Pids == {42}
PriorPidFiles == {NoFile, <<>>, <<"9">>, <<"9", "9", "9">>}

\* ---------------------------------------------------------------- state
VARIABLES
    cli,          \* create's arguments: container_id, console_socket, pid_file, root
    config,       \* config.json: file status, process.terminal, linux
    pc0, pc1, pc2,\* where P0, P1 and P2 stand
    pcS,          \* where each start invocation stands
    fds,          \* the descriptors each process holds open
    chanA, chanB, \* datagrams queued towards P0 on socketpairs A and B
    init_pid,     \* P0: what recv on A returned
    ready_msg,    \* P0: what recv on B returned
    child_pid,    \* P1: the pid fork returned
    listener,     \* the exec rendezvous socket
    backlog,      \* connections made to it and not yet accepted
    accepted,     \* connections accept() returned
    fsDirs,       \* directories created by the runtime
    fsSocks,      \* socket files bound by the runtime
    pidFile,      \* content of the file at the pid-file path
    done2,        \* P2: the steps it completed, in order
    paths,        \* P2: container_root and socket_path
    unshareArg,   \* the flag sets passed to unshare by P1 and P2
    startId,      \* each start's container_id argument
    startPath     \* each start's socket_path

vars == <<cli, config, pc0, pc1, pc2, pcS, fds, chanA, chanB, init_pid,
          ready_msg, child_pid, listener, backlog, accepted, fsDirs, fsSocks,
          pidFile, done2, paths, unshareArg, startId, startPath>>

inputs == <<cli, config>>
p0loc  == <<init_pid, ready_msg>>
chans  == <<chanA, chanB>>
sockv  == <<listener, backlog, accepted>>
fsv    == <<fsDirs, fsSocks>>
p2loc  == <<done2, paths>>
startv == <<pcS, startId, startPath>>

\* The descriptors, by the names the code gives them.
ParentEnds == {"parent_child_sock", "parent_grandchild_sock"}
ChildEnds  == {"child_parent_sock", "grandchild_parent_sock"}
PairEnds   == ParentEnds \cup ChildEnds

\* Descriptors that carry close-on-exec.
CloexecFds ==
    (IF "CLOEXEC" \in SockPairFlags THEN PairEnds ELSE {})
    \cup (IF "CLOEXEC" \in ExecSockFlags THEN {"socket"} ELSE {})

Holders(fd) == {p \in Procs : fd \in fds[p]}

\* recv(2) on a SOCK_SEQPACKET endpoint, then buf.truncate(len): the first
\* queued datagram cut at the buffer length, or length 0 once every holder of
\* the peer endpoint has closed it.
RecvReady(chan, peer) == chan # <<>> \/ Holders(peer) = {}

RecvBytes(chan) ==
    IF chan # <<>> THEN SubSeq(Head(chan), 1, Min(Len(Head(chan)), RecvBufLen))
    ELSE <<>>

RecvRest(chan) == IF chan # <<>> THEN Tail(chan) ELSE chan

\* ----------------------------------------------------------------- Init
ValidConfigs ==
    [file : {"valid"}, terminal : BOOLEAN, linux : MainLinux]

BrokenConfigs ==
    [file : ConfigFiles \ {"valid"}, terminal : {FALSE}, linux : {NoLinux}]

InitProcs ==
    /\ pc0 = "parse" /\ pc1 = "none" /\ pc2 = "none"
    /\ pcS = [s \in Starts |-> "idle"]
    /\ fds = [p \in Procs |-> {}]
    /\ chanA = <<>> /\ chanB = <<>>
    /\ init_pid = Null /\ ready_msg = Null /\ child_pid = 0
    /\ listener = "none" /\ backlog = <<>> /\ accepted = <<>>
    /\ fsDirs = {} /\ fsSocks = {}
    /\ done2 = <<>>
    /\ paths = [container_root |-> Null, socket_path |-> Null]
    /\ unshareArg = [p \in {"P1", "P2"} |-> NotCalled]
    /\ startId = [s \in Starts |-> Null]
    /\ startPath = [s \in Starts |-> Null]

Init ==
    /\ cli \in [container_id : {CreatedId}, console_socket : BOOLEAN,
                pid_file : BOOLEAN, root : {HAKO_ROOT}]
    /\ config \in ValidConfigs \cup BrokenConfigs
    /\ pidFile \in (IF cli.pid_file THEN PriorPidFiles ELSE {NoFile})
    /\ InitProcs

\* ------------------------------------------------------------------- P0
\* main returns (Ok or Err): the process ends and its descriptors close.
P0Exit(code) ==
    /\ pc0' = code
    /\ fds' = [fds EXCEPT !["P0"] = {}]

\* P0Parse that goes on whatever the parse returned.
P0ParseUnchecked ==
    /\ pc0 = "parse"
    /\ pc0' = "socketpair_a"
    /\ UNCHANGED <<inputs, pc1, pc2, fds, chans, p0loc, child_pid, sockv, fsv,
                   pidFile, p2loc, unshareArg, startv>>

\* main, Commands::Create: Spec::try_from(config.json)?
P0Parse ==
    /\ pc0 = "parse"
    /\ IF config.file = "valid"
       THEN pc0' = "socketpair_a" /\ UNCHANGED fds
       ELSE P0Exit("err")
    /\ UNCHANGED <<inputs, pc1, pc2, chans, p0loc, child_pid, sockv, fsv,
                   pidFile, p2loc, unshareArg, startv>>

\* create: socketpair A
P0SocketpairA(ok) ==
    /\ pc0 = "socketpair_a"
    /\ IF ok
       THEN /\ pc0' = "socketpair_b"
            /\ fds' = [fds EXCEPT !["P0"] =
                          @ \cup {"parent_child_sock", "child_parent_sock"}]
       ELSE P0Exit("err")
    /\ UNCHANGED <<inputs, pc1, pc2, chans, p0loc, child_pid, sockv, fsv,
                   pidFile, p2loc, unshareArg, startv>>

\* create: socketpair B
P0SocketpairB(ok) ==
    /\ pc0 = "socketpair_b"
    /\ IF ok
       THEN /\ pc0' = "fork"
            /\ fds' = [fds EXCEPT !["P0"] =
                          @ \cup {"parent_grandchild_sock", "grandchild_parent_sock"}]
       ELSE P0Exit("err")
    /\ UNCHANGED <<inputs, pc1, pc2, chans, p0loc, child_pid, sockv, fsv,
                   pidFile, p2loc, unshareArg, startv>>

\* create: fork; the child P1 starts with a copy of P0's descriptors.
P0Fork(ok) ==
    /\ pc0 = "fork"
    /\ IF ok
       THEN /\ pc0' = "drop"
            /\ pc1' = "drop_parent"
            /\ fds' = [fds EXCEPT !["P1"] = fds["P0"]]
       ELSE P0Exit("err") /\ UNCHANGED pc1
    /\ UNCHANGED <<inputs, pc2, chans, p0loc, child_pid, sockv, fsv,
                   pidFile, p2loc, unshareArg, startv>>

\* create, parent branch: drop(child_parent_sock); drop(grandchild_parent_sock)
P0Drop ==
    /\ pc0 = "drop"
    /\ pc0' = "recv_a"
    /\ fds' = [fds EXCEPT !["P0"] = @ \ ChildEnds]
    /\ UNCHANGED <<inputs, pc1, pc2, chans, p0loc, child_pid, sockv, fsv,
                   pidFile, p2loc, unshareArg, startv>>

\* P0RecvA that reads channel B where it should read channel A.
P0RecvAFromB ==
    /\ pc0 = "recv_a"
    /\ RecvReady(chanB, "grandchild_parent_sock")
    /\ ready_msg' = RecvBytes(chanB)
    /\ chanB' = RecvRest(chanB)
    /\ pc0' = "recv_b"
    /\ UNCHANGED fds
    /\ UNCHANGED <<inputs, pc1, pc2, chanA, init_pid, child_pid, sockv, fsv,
                   pidFile, p2loc, unshareArg, startv>>

\* create: let init_pid = child_channel.recv()?
\* recv(2) blocks; on this connected endpoint it returns a datagram or 0, and
\* the payloads sent are ASCII, so from_utf8 succeeds: no error branch is taken.
P0RecvA ==
    /\ pc0 = "recv_a"
    /\ RecvReady(chanA, "child_parent_sock")
    /\ init_pid' = RecvBytes(chanA)
    /\ chanA' = RecvRest(chanA)
    /\ pc0' = "recv_b"
    /\ UNCHANGED fds
    /\ UNCHANGED <<inputs, pc1, pc2, chanB, ready_msg, child_pid, sockv, fsv,
                   pidFile, p2loc, unshareArg, startv>>

\* create: grandchild_channel.recv()?; without a pid file create returns Ok.
P0RecvB ==
    /\ pc0 = "recv_b"
    /\ RecvReady(chanB, "grandchild_parent_sock")
    /\ ready_msg' = RecvBytes(chanB)
    /\ chanB' = RecvRest(chanB)
    /\ IF cli.pid_file
       THEN pc0' = "open_pid" /\ UNCHANGED fds
       ELSE P0Exit("ok")
    /\ UNCHANGED <<inputs, pc1, pc2, chanA, init_pid, child_pid, sockv, fsv,
                   pidFile, p2loc, unshareArg, startv>>

\* create: OpenOptions::new().create(true).write(true).open(pid_file)?
P0OpenPid(ok) ==
    /\ pc0 = "open_pid"
    /\ IF ok
       THEN /\ pc0' = "write_pid"
            /\ pidFile' = IF pidFile = NoFile THEN <<>> ELSE pidFile
            /\ UNCHANGED fds
       ELSE P0Exit("err") /\ UNCHANGED pidFile
    /\ UNCHANGED <<inputs, pc1, pc2, chans, p0loc, child_pid, sockv, fsv,
                   p2loc, unshareArg, startv>>

\* create: write!(pid_file, "{}", init_pid)?; then Ok(())
P0WritePid(ok) ==
    /\ pc0 = "write_pid"
    /\ IF ok
       THEN P0Exit("ok") /\ pidFile' = WriteAtStart(pidFile, init_pid)
       ELSE P0Exit("err") /\ UNCHANGED pidFile
    /\ UNCHANGED <<inputs, pc1, pc2, chans, p0loc, child_pid, sockv, fsv,
                   p2loc, unshareArg, startv>>

\* ------------------------------------------------------------------- P1
\* exit(0) / exit(1) in the child branch of create.
P1Exit(code) ==
    /\ pc1' = code
    /\ fds' = [fds EXCEPT !["P1"] = {}]

\* create, child branch: drop(parent_child_sock); drop(parent_grandchild_sock)
P1DropParent ==
    /\ pc1 = "drop_parent"
    /\ pc1' = "unshare"
    /\ fds' = [fds EXCEPT !["P1"] = @ \ ParentEnds]
    /\ UNCHANGED <<inputs, pc0, pc2, chans, p0loc, child_pid, sockv, fsv,
                   pidFile, p2loc, unshareArg, startv>>

\* P1Unshare without the CLONE_NEWPID mask.
P1UnshareAll(ok) ==
    /\ pc1 = "unshare"
    /\ IF config.linux = NoLinux
       THEN ok /\ pc1' = "fork" /\ UNCHANGED <<fds, unshareArg>>
       ELSE /\ unshareArg' = [unshareArg EXCEPT !["P1"] = clone_flags(config.linux)]
            /\ IF ok THEN pc1' = "fork" /\ UNCHANGED fds ELSE P1Exit("exit1")
    /\ UNCHANGED <<inputs, pc0, pc2, chans, p0loc, child_pid, sockv, fsv,
                   pidFile, p2loc, startv>>

\* intermediate_process: unshare(clone_flags() & CLONE_NEWPID)? when linux is set
P1Unshare(ok) ==
    /\ pc1 = "unshare"
    /\ IF config.linux = NoLinux
       THEN ok /\ pc1' = "fork" /\ UNCHANGED <<fds, unshareArg>>
       ELSE /\ unshareArg' = [unshareArg EXCEPT !["P1"] =
                                 P1UnshareFlags(config.linux)]
            /\ IF ok THEN pc1' = "fork" /\ UNCHANGED fds ELSE P1Exit("exit1")
    /\ UNCHANGED <<inputs, pc0, pc2, chans, p0loc, child_pid, sockv, fsv,
                   pidFile, p2loc, startv>>

\* intermediate_process: fork; the child P2 starts with a copy of P1's descriptors.
P1Fork(ok, pid) ==
    /\ pc1 = "fork"
    /\ IF ok
       THEN /\ pc1' = "drop_grandchild"
            /\ child_pid' = pid
            /\ pc2' = "drop_child"
            /\ fds' = [fds EXCEPT !["P2"] = fds["P1"]]
       ELSE P1Exit("exit1") /\ UNCHANGED <<child_pid, pc2>>
    /\ UNCHANGED <<inputs, pc0, chans, p0loc, sockv, fsv, pidFile, p2loc,
                   unshareArg, startv>>

\* P1DropGrandchild that keeps the descriptor open.
P1DropGrandchildKept ==
    /\ pc1 = "drop_grandchild"
    /\ pc1' = "send"
    /\ UNCHANGED fds
    /\ UNCHANGED <<inputs, pc0, pc2, chans, p0loc, child_pid, sockv, fsv,
                   pidFile, p2loc, unshareArg, startv>>

\* intermediate_process, parent branch: drop(grandchild_channel)
P1DropGrandchild ==
    /\ pc1 = "drop_grandchild"
    /\ pc1' = "send"
    /\ fds' = [fds EXCEPT !["P1"] = @ \ {"grandchild_parent_sock"}]
    /\ UNCHANGED <<inputs, pc0, pc2, chans, p0loc, child_pid, sockv, fsv,
                   pidFile, p2loc, unshareArg, startv>>

\* intermediate_process: child_channel.send(child_pid.to_string())?
\* send fails once nobody holds the peer endpoint.
P1Send(ok) ==
    /\ pc1 = "send"
    /\ IF ok
       THEN /\ Holders("parent_child_sock") # {}
            /\ chanA' = Append(chanA, ToDecimal(child_pid))
            /\ pc1' = "return_ok"
            /\ UNCHANGED fds
       ELSE P1Exit("exit1") /\ UNCHANGED chanA
    /\ UNCHANGED <<inputs, pc0, pc2, chanB, p0loc, child_pid, sockv, fsv,
                   pidFile, p2loc, unshareArg, startv>>

\* create, child branch: intermediate_process returned Ok, exit(0)
P1Exit0 ==
    /\ pc1 = "return_ok"
    /\ P1Exit("exit0")
    /\ UNCHANGED <<inputs, pc0, pc2, chans, p0loc, child_pid, sockv, fsv,
                   pidFile, p2loc, unshareArg, startv>>

\* ------------------------------------------------------------------- P2
\* P2 ends (exit(1), or a panic): its descriptors close, and with them the
\* exec socket if it was open.
P2Die(code) ==
    /\ pc2' = code
    /\ fds' = [fds EXCEPT !["P2"] = {}]
    /\ listener' = IF "socket" \in fds["P2"] THEN "closed" ELSE listener

\* P2 completed `step` and goes on to `next`.
P2Done(step, next) ==
    /\ pc2' = next
    /\ done2' = Append(done2, step)

\* A step of init_process that touches nothing the model tracks: `?` sends a
\* failure to exit(1).
P2Plain(step, next, ok) ==
    /\ pc2 = step
    /\ IF ok
       THEN P2Done(step, next) /\ UNCHANGED <<fds, listener>>
       ELSE P2Die("exit1") /\ UNCHANGED done2
    /\ UNCHANGED <<inputs, pc0, pc1, chans, p0loc, child_pid, backlog, accepted,
                   fsv, pidFile, paths, unshareArg, startv>>

\* P2DropChild that keeps the descriptor open.
P2DropChildKept ==
    /\ pc2 = "drop_child"
    /\ pc2' = "setsid"
    /\ UNCHANGED fds
    /\ UNCHANGED <<inputs, pc0, pc1, chans, p0loc, child_pid, sockv, fsv,
                   pidFile, p2loc, unshareArg, startv>>

\* intermediate_process, child branch: drop(child_channel)
P2DropChild ==
    /\ pc2 = "drop_child"
    /\ pc2' = "setsid"
    /\ fds' = [fds EXCEPT !["P2"] = @ \ {"child_parent_sock"}]
    /\ UNCHANGED <<inputs, pc0, pc1, chans, p0loc, child_pid, sockv, fsv,
                   pidFile, p2loc, unshareArg, startv>>

\* init_process: setsid()?; then `if ctx.spec.process.terminal`
P2Setsid(ok) ==
    P2Plain("setsid", IF config.terminal THEN "openpty" ELSE "unshare", ok)

\* init_process: openpty(None, None)?; master and slave are ManuallyDrop
P2Openpty(ok) ==
    /\ pc2 = "openpty"
    /\ IF ok
       THEN /\ P2Done("openpty", "console_socket")
            /\ fds' = [fds EXCEPT !["P2"] = @ \cup {"master", "slave"}]
            /\ UNCHANGED listener
       ELSE P2Die("exit1") /\ UNCHANGED done2
    /\ UNCHANGED <<inputs, pc0, pc1, chans, p0loc, child_pid, backlog, accepted,
                   fsv, pidFile, paths, unshareArg, startv>>

\* init_process: socket(Unix, Stream, SockFlag::empty(), None)?
P2ConsoleSocket(ok) ==
    /\ pc2 = "console_socket"
    /\ IF ok
       THEN /\ P2Done("console_socket", "console_addr")
            /\ fds' = [fds EXCEPT !["P2"] = @ \cup {"console_socket"}]
            /\ UNCHANGED listener
       ELSE P2Die("exit1") /\ UNCHANGED done2
    /\ UNCHANGED <<inputs, pc0, pc1, chans, p0loc, child_pid, backlog, accepted,
                   fsv, pidFile, paths, unshareArg, startv>>

\* init_process: UnixAddr::new(ctx.console_socket.unwrap().as_path())?
\* unwrap() on None panics.
P2ConsoleAddr(ok) ==
    /\ pc2 = "console_addr"
    /\ IF ~cli.console_socket
       THEN ok /\ P2Die("panic") /\ UNCHANGED done2
       ELSE IF ok
            THEN P2Done("console_addr", "console_connect") /\ UNCHANGED <<fds, listener>>
            ELSE P2Die("exit1") /\ UNCHANGED done2
    /\ UNCHANGED <<inputs, pc0, pc1, chans, p0loc, child_pid, backlog, accepted,
                   fsv, pidFile, paths, unshareArg, startv>>

\* init_process: connect(console_socket, &console_sock_addr)?
P2ConsoleConnect(ok) == P2Plain("console_connect", "sendmsg", ok)

\* init_process: sendmsg with SCM_RIGHTS carrying the master fd
P2Sendmsg(ok) == P2Plain("sendmsg", "tiocsctty", ok)

\* init_process: ioctl(slave, TIOCSCTTY) < 0 returns Err
P2Tiocsctty(ok) == P2Plain("tiocsctty", "dup2", ok)

\* init_process: dup2(slave, 0/1/2)?; console_socket is dropped where the
\* block ends.
P2Dup2(ok) ==
    /\ pc2 = "dup2"
    /\ IF ok
       THEN /\ P2Done("dup2", "unshare")
            /\ fds' = [fds EXCEPT !["P2"] = @ \ {"console_socket"}]
            /\ UNCHANGED listener
       ELSE P2Die("exit1") /\ UNCHANGED done2
    /\ UNCHANGED <<inputs, pc0, pc1, chans, p0loc, child_pid, backlog, accepted,
                   fsv, pidFile, paths, unshareArg, startv>>

\* init_process: unshare(clone_flags() & !CLONE_NEWPID)? when linux is set
P2Unshare(ok) ==
    /\ pc2 = "unshare"
    /\ IF config.linux = NoLinux
       THEN ok /\ pc2' = "mount_private" /\ UNCHANGED <<done2, fds, listener, unshareArg>>
       ELSE /\ unshareArg' = [unshareArg EXCEPT !["P2"] =
                                 P2UnshareFlags(config.linux)]
            /\ IF ok
               THEN P2Done("unshare", "mount_private") /\ UNCHANGED <<fds, listener>>
               ELSE P2Die("exit1") /\ UNCHANGED done2
    /\ UNCHANGED <<inputs, pc0, pc1, chans, p0loc, child_pid, backlog, accepted,
                   fsv, pidFile, paths, startv>>

\* P2MountPrivate that goes on to the next mount when the remount failed.
P2MountPrivateLenient(ok) ==
    /\ pc2 = "mount_private"
    /\ IF ok
       THEN P2Done("mount_private", "mount_bind")
       ELSE pc2' = "mount_bind" /\ UNCHANGED done2
    /\ UNCHANGED <<fds, listener>>
    /\ UNCHANGED <<inputs, pc0, pc1, chans, p0loc, child_pid, backlog, accepted,
                   fsv, pidFile, paths, unshareArg, startv>>

\* init_process: mount(None, "/", None, MS_PRIVATE | MS_REC, None)?
P2MountPrivate(ok) == P2Plain("mount_private", "mount_bind", ok)

\* init_process: mount(root.path, root.path, None, MS_BIND | MS_REC, None)?
P2MountBind(ok) == P2Plain("mount_bind", "create_dir", ok)

\* init_process: container_root, socket_path, create_dir_all(container_root)?
P2CreateDir(ok) ==
    /\ pc2 = "create_dir"
    /\ paths' = [container_root |-> InitContainerRoot(cli),
                 socket_path |-> InitSocketPath(cli)]
    /\ IF ok
       THEN /\ P2Done("create_dir", "socket")
            /\ fsDirs' = fsDirs \cup {InitContainerRoot(cli)}
            /\ UNCHANGED <<fds, listener>>
       ELSE P2Die("exit1") /\ UNCHANGED <<done2, fsDirs>>
    /\ UNCHANGED <<inputs, pc0, pc1, chans, p0loc, child_pid, backlog, accepted,
                   fsSocks, pidFile, unshareArg, startv>>

\* init_process: socket(Unix, SeqPacket, SOCK_CLOEXEC, None)?
P2Socket(ok) ==
    /\ pc2 = "socket"
    /\ IF ok
       THEN /\ P2Done("socket", "bind")
            /\ fds' = [fds EXCEPT !["P2"] = @ \cup {"socket"}]
            /\ listener' = "created"
       ELSE P2Die("exit1") /\ UNCHANGED done2
    /\ UNCHANGED <<inputs, pc0, pc1, chans, p0loc, child_pid, backlog, accepted,
                   fsv, pidFile, paths, unshareArg, startv>>

\* init_process: bind(socket, &sock_addr)?; the socket file appears.
P2Bind(ok) ==
    /\ pc2 = "bind"
    /\ IF ok
       THEN /\ paths.socket_path \notin fsSocks
            /\ P2Done("bind", "listen")
            /\ fsSocks' = fsSocks \cup {paths.socket_path}
            /\ listener' = "bound"
            /\ UNCHANGED fds
       ELSE P2Die("exit1") /\ UNCHANGED <<done2, fsSocks>>
    /\ UNCHANGED <<inputs, pc0, pc1, chans, p0loc, child_pid, backlog, accepted,
                   fsDirs, pidFile, paths, unshareArg, startv>>

\* P2Listen that goes on without putting the socket into the listening state.
P2ListenNoop(ok) ==
    /\ pc2 = "listen"
    /\ IF ok
       THEN P2Done("listen", "pivot_root") /\ UNCHANGED <<fds, listener>>
       ELSE P2Die("exit1") /\ UNCHANGED done2
    /\ UNCHANGED <<inputs, pc0, pc1, chans, p0loc, child_pid, backlog, accepted,
                   fsv, pidFile, paths, unshareArg, startv>>

\* init_process: listen(&socket, Backlog::new(1)?)?
P2Listen(ok) ==
    /\ pc2 = "listen"
    /\ IF ok
       THEN /\ P2Done("listen", "pivot_root")
            /\ listener' = "listening"
            /\ UNCHANGED fds
       ELSE P2Die("exit1") /\ UNCHANGED done2
    /\ UNCHANGED <<inputs, pc0, pc1, chans, p0loc, child_pid, backlog, accepted,
                   fsv, pidFile, paths, unshareArg, startv>>

\* init_process: pivot_root(root.path, root.path)?
P2PivotRoot(ok) == P2Plain("pivot_root", "mount_proc", ok)

\* init_process: mount("proc", "/proc", "proc", empty, None)?
P2MountProc(ok) == P2Plain("mount_proc", "send_ready", ok)

\* init_process: grandchild_channel.send("ready")?
P2SendReady(ok) ==
    /\ pc2 = "send_ready"
    /\ IF ok
       THEN /\ Holders("parent_grandchild_sock") # {}
            /\ chanB' = Append(chanB, READY)
            /\ P2Done("send_ready", "accept")
            /\ UNCHANGED <<fds, listener>>
       ELSE P2Die("exit1") /\ UNCHANGED <<done2, chanB>>
    /\ UNCHANGED <<inputs, pc0, pc1, chanA, p0loc, child_pid, backlog, accepted,
                   fsv, pidFile, paths, unshareArg, startv>>

\* P2Accept with the wait left out: goes on without a connection.
P2AcceptNoWait(ok) ==
    /\ pc2 = "accept"
    /\ IF ok
       THEN P2Done("accept", "chdir") /\ UNCHANGED <<fds, listener>>
       ELSE P2Die("exit1") /\ UNCHANGED done2
    /\ UNCHANGED <<inputs, pc0, pc1, chans, p0loc, child_pid, backlog, accepted,
                   fsv, pidFile, paths, unshareArg, startv>>

\* P2Accept that only returns once a second connection is queued.
P2AcceptSecond(ok) ==
    /\ pc2 = "accept"
    /\ IF ok
       THEN /\ Len(backlog) > 1
            /\ accepted' = Append(accepted, Head(backlog))
            /\ backlog' = Tail(backlog)
            /\ P2Done("accept", "chdir")
            /\ fds' = [fds EXCEPT !["P2"] = @ \cup {"conn"}]
            /\ UNCHANGED listener
       ELSE P2Die("exit1") /\ UNCHANGED <<done2, accepted, backlog>>
    /\ UNCHANGED <<inputs, pc0, pc1, chans, p0loc, child_pid, fsv, pidFile,
                   paths, unshareArg, startv>>

\* init_process: accept(socket)?; blocks until a connection is queued. The
\* returned descriptor is a plain RawFd.
P2Accept(ok) ==
    /\ pc2 = "accept"
    /\ IF ok
       THEN /\ backlog # <<>>
            /\ accepted' = Append(accepted, Head(backlog))
            /\ backlog' = Tail(backlog)
            /\ P2Done("accept", "chdir")
            /\ fds' = [fds EXCEPT !["P2"] = @ \cup {"conn"}]
            /\ UNCHANGED listener
       ELSE P2Die("exit1") /\ UNCHANGED <<done2, accepted, backlog>>
    /\ UNCHANGED <<inputs, pc0, pc1, chans, p0loc, child_pid, fsv, pidFile,
                   paths, unshareArg, startv>>

\* init_process: set_current_dir(process.cwd)?
P2Chdir(ok) == P2Plain("chdir", "execvp", ok)

\* init_process: execvp(&args[0], &args)?; on success the image is the
\* user's and the close-on-exec descriptors are gone.
P2Execvp(ok) ==
    /\ pc2 = "execvp"
    /\ IF ok
       THEN /\ P2Done("execvp", "user")
            /\ fds' = [fds EXCEPT !["P2"] = @ \ CloexecFds]
            /\ listener' = IF "socket" \in CloexecFds THEN "closed" ELSE listener
       ELSE P2Die("exit1") /\ UNCHANGED done2
    /\ UNCHANGED <<inputs, pc0, pc1, chans, p0loc, child_pid, backlog, accepted,
                   fsv, pidFile, paths, unshareArg, startv>>

\* ---------------------------------------------------------------- start
\* ConnectResult that takes a bound socket for a listening one.
ConnectResultBound(path) ==
    IF path \notin fsSocks THEN "err"
    ELSE IF listener \notin {"bound", "listening"} THEN "err"
    ELSE IF Len(backlog) > ListenBacklog THEN "block"
    ELSE "ok"

\* ConnectResult that goes by the socket file alone.
ConnectResultStale(path) ==
    IF path \notin fsSocks THEN "err"
    ELSE IF Len(backlog) > ListenBacklog THEN "block"
    ELSE "ok"

\* connect(2) on a path: no socket file there or nobody listening is an
\* error; a full accept queue blocks; otherwise the connection is queued.
ConnectResult(path) ==
    IF path \notin fsSocks THEN "err"
    ELSE IF listener # "listening" THEN "err"
    ELSE IF Len(backlog) > ListenBacklog THEN "block"
    ELSE "ok"

\* main, Commands::Start: container_root, socket_path, socket(..)?
StartInvoke(s, id, root, ok) ==
    /\ pcS[s] = "idle"
    /\ startId' = [startId EXCEPT ![s] = id]
    /\ startPath' = [startPath EXCEPT ![s] = StartSocketPath(root, id)]
    /\ pcS' = [pcS EXCEPT ![s] = IF ok THEN "connect" ELSE "err"]
    /\ UNCHANGED <<inputs, pc0, pc1, pc2, fds, chans, p0loc, child_pid, sockv,
                   fsv, pidFile, p2loc, unshareArg>>

\* main, Commands::Start: connect(socket, &sock_addr)?; then Ok(())
StartConnect(s) ==
    /\ pcS[s] = "connect"
    /\ ConnectResult(startPath[s]) # "block"
    /\ IF ConnectResult(startPath[s]) = "ok"
       THEN /\ backlog' = Append(backlog, s)
            /\ pcS' = [pcS EXCEPT ![s] = "ok"]
       ELSE /\ pcS' = [pcS EXCEPT ![s] = "err"]
            /\ UNCHANGED backlog
    /\ UNCHANGED <<inputs, pc0, pc1, pc2, fds, chans, p0loc, child_pid,
                   listener, accepted, fsv, pidFile, p2loc, unshareArg,
                   startId, startPath>>

\* ----------------------------------------------------------------- Next
P0Next ==
    \/ P0Parse
    \/ \E ok \in BOOLEAN : P0SocketpairA(ok)
    \/ \E ok \in BOOLEAN : P0SocketpairB(ok)
    \/ \E ok \in BOOLEAN : P0Fork(ok)
    \/ P0Drop
    \/ P0RecvA
    \/ P0RecvB
    \/ \E ok \in BOOLEAN : P0OpenPid(ok)
    \/ \E ok \in BOOLEAN : P0WritePid(ok)

P1Next ==
    \/ P1DropParent
    \/ \E ok \in BOOLEAN : P1Unshare(ok)
    \/ \E ok \in BOOLEAN, pid \in Pids : P1Fork(ok, pid)
    \/ P1DropGrandchild
    \/ \E ok \in BOOLEAN : P1Send(ok)
    \/ P1Exit0

P2Next ==
    \/ P2DropChild
    \/ \E ok \in BOOLEAN : P2Setsid(ok)
    \/ \E ok \in BOOLEAN : P2Openpty(ok)
    \/ \E ok \in BOOLEAN : P2ConsoleSocket(ok)
    \/ \E ok \in BOOLEAN : P2ConsoleAddr(ok)
    \/ \E ok \in BOOLEAN : P2ConsoleConnect(ok)
    \/ \E ok \in BOOLEAN : P2Sendmsg(ok)
    \/ \E ok \in BOOLEAN : P2Tiocsctty(ok)
    \/ \E ok \in BOOLEAN : P2Dup2(ok)
    \/ \E ok \in BOOLEAN : P2Unshare(ok)
    \/ \E ok \in BOOLEAN : P2MountPrivate(ok)
    \/ \E ok \in BOOLEAN : P2MountBind(ok)
    \/ \E ok \in BOOLEAN : P2CreateDir(ok)
    \/ \E ok \in BOOLEAN : P2Socket(ok)
    \/ \E ok \in BOOLEAN : P2Bind(ok)
    \/ \E ok \in BOOLEAN : P2Listen(ok)
    \/ \E ok \in BOOLEAN : P2PivotRoot(ok)
    \/ \E ok \in BOOLEAN : P2MountProc(ok)
    \/ \E ok \in BOOLEAN : P2SendReady(ok)
    \/ \E ok \in BOOLEAN : P2Accept(ok)
    \/ \E ok \in BOOLEAN : P2Chdir(ok)
    \/ \E ok \in BOOLEAN : P2Execvp(ok)

StartNext ==
    \/ \E s \in Starts, id \in MainIds, ok \in BOOLEAN :
           StartInvoke(s, id, HAKO_ROOT, ok)
    \/ \E s \in Starts : StartConnect(s)

Next == P0Next \/ P1Next \/ P2Next \/ StartNext

Spec == Init /\ [][Next]_vars

\* `hako start` run only once `hako create` has returned Ok.
StartAfterCreate == pc0 = "ok" /\ StartNext

NextAfterCreate == P0Next \/ P1Next \/ P2Next \/ StartAfterCreate

SpecAfterCreate == Init /\ [][NextAfterCreate]_vars

\* A step of P2 that does not end it: what fair scheduling of P2 grants.
P2Progress == P2Next /\ pc2' \notin {"exit1", "panic"}

\* One full bring-up (terminal, console socket, pid file, namespaces), with
\* P2 scheduled fairly.
InitLive ==
    /\ cli = [container_id |-> CreatedId, console_socket |-> TRUE,
              pid_file |-> TRUE, root |-> HAKO_ROOT]
    /\ config \in [file : {"valid"}, terminal : BOOLEAN, linux : {<<"pid", "mount">>}]
    /\ pidFile = NoFile
    /\ InitProcs

FairSpec == InitLive /\ [][Next]_vars /\ WF_vars(P2Progress)

\* One full bring-up for every namespace list over NsTypesSplit, and for
\* linux absent.
InitNs ==
    /\ cli = [container_id |-> CreatedId, console_socket |-> TRUE,
              pid_file |-> TRUE, root |-> HAKO_ROOT]
    /\ config \in [file : {"valid"}, terminal : {TRUE},
                   linux : {NoLinux} \cup NsLists(NsTypesSplit, MaxNs)]
    /\ pidFile = NoFile
    /\ InitProcs

SpecNs == InitNs /\ [][Next]_vars

\* A step of P2 other than accept(), the one call of P2 that blocks.
P2Step == pc2 # "accept" /\ P2Next

\* A bring-up with a PTY handoff, with and without a console socket, in which
\* P0, P1 and P2 are scheduled fairly: each takes its next step, succeeding
\* or failing, unless it is blocked in recv or accept.
InitCreate ==
    /\ cli \in [container_id : {CreatedId}, console_socket : BOOLEAN,
                pid_file : {TRUE}, root : {HAKO_ROOT}]
    /\ config = [file |-> "valid", terminal |-> TRUE, linux |-> <<"pid", "mount">>]
    /\ pidFile = NoFile
    /\ InitProcs

FairCreate ==
    /\ InitCreate /\ [][Next]_vars
    /\ WF_vars(P0Next) /\ WF_vars(P1Next) /\ WF_vars(P2Step)

\* ------------------------------------------------- socket path resolution
\* The two path computations applied to ids and roots drawn from Ids and
\* Roots.
InitPath ==
    /\ cli \in [container_id : Ids, console_socket : {FALSE},
                pid_file : {FALSE}, root : Roots]
    /\ config = [file |-> "valid", terminal |-> FALSE, linux |-> NoLinux]
    /\ pidFile = NoFile
    /\ InitProcs

\* init_process: container_root and socket_path
PathInit ==
    /\ paths.socket_path = Null
    /\ paths' = [container_root |-> InitContainerRoot(cli),
                 socket_path |-> InitSocketPath(cli)]
    /\ UNCHANGED <<inputs, pc0, pc1, pc2, fds, chans, p0loc, child_pid, sockv,
                   fsv, pidFile, done2, unshareArg, startv>>

\* main, Commands::Start: container_root and socket_path
PathStart(id, root) ==
    /\ startPath[1] = Null
    /\ startId' = [startId EXCEPT ![1] = id]
    /\ startPath' = [startPath EXCEPT ![1] = StartSocketPath(root, id)]
    /\ UNCHANGED <<inputs, pc0, pc1, pc2, pcS, fds, chans, p0loc, child_pid,
                   sockv, fsv, pidFile, p2loc, unshareArg>>

NextPath ==
    \/ PathInit
    \/ \E id \in Ids, root \in Roots : PathStart(id, root)

SpecPath == InitPath /\ [][NextPath]_vars

\* ------------------------------------------------------ namespace planning
\* The two flag computations applied to every namespace list of up to MaxNs
\* entries over NsTypes.
InitPlan ==
    /\ cli = [container_id |-> CreatedId, console_socket |-> FALSE,
              pid_file |-> FALSE, root |-> HAKO_ROOT]
    /\ config \in [file : {"valid"}, terminal : {FALSE},
                   linux : NsLists(NsTypes, MaxNs)]
    /\ pidFile = NoFile
    /\ InitProcs

\* intermediate_process: the argument of its unshare
PlanP1 ==
    /\ unshareArg["P1"] = NotCalled
    /\ unshareArg' = [unshareArg EXCEPT !["P1"] = P1UnshareFlags(config.linux)]
    /\ UNCHANGED <<inputs, pc0, pc1, pc2, fds, chans, p0loc, child_pid, sockv,
                   fsv, pidFile, p2loc, startv>>

\* init_process: the argument of its unshare
PlanP2 ==
    /\ unshareArg["P2"] = NotCalled
    /\ unshareArg' = [unshareArg EXCEPT !["P2"] = P2UnshareFlags(config.linux)]
    /\ UNCHANGED <<inputs, pc0, pc1, pc2, fds, chans, p0loc, child_pid, sockv,
                   fsv, pidFile, p2loc, startv>>

NextPlan == PlanP1 \/ PlanP2

SpecPlan == InitPlan /\ [][NextPlan]_vars

\* ================================================================ claims
Completed(step) == step \in Range(done2)

Connected(s) == pcS[s] = "ok"

\* C1 -- Exec gating: P2 is at or past execvp only when its accept() returned
\* a connection made by a start invocation whose connect succeeded; while no
\* start has connected, P2 has not got past accept.
C1_ExecGating ==
    /\ (pc2 \in {"chdir", "execvp", "user"} \/ Completed("execvp"))
          => /\ Len(accepted) = 1
             /\ accepted[1] \in Starts
             /\ Connected(accepted[1])
    /\ (\A s \in Starts : ~Connected(s))
          => /\ pc2 \notin {"chdir", "execvp", "user"}
             /\ ~Completed("accept")

C1_Witness == pc2 = "user" /\ Len(accepted) = 1 /\ Connected(accepted[1])

\* C2 (as stated) -- Readiness causality: whenever a start's connect has
\* succeeded, P2 has already sent "ready".
C2_ReadinessCausality ==
    \A s \in Starts : Connected(s) => Completed("send_ready")

\* C2 (amended) -- whenever a start's connect has succeeded, P2 has already
\* put the exec socket into the listening state; and once create has returned
\* Ok, a connect can succeed only if P2 has sent "ready".
C2_ConnectAfterListen ==
    /\ \A s \in Starts : Connected(s) => Completed("listen")
    /\ \A s \in Starts :
          (pc0 = "ok" /\ pcS[s] = "connect" /\ ConnectResult(startPath[s]) = "ok")
             => Completed("send_ready")

C2_Witness ==
    \E s \in Starts :
        Connected(s) /\ pc2 \in {"pivot_root", "mount_proc", "send_ready"}

\* C3 -- Create failure reporting: P0 gets past its two receives (writes the
\* pid file, returns Ok) only if it received the pid datagram on A and the
\* literal "ready" on B.
C3_CreateFailureReporting ==
    pc0 \in {"open_pid", "write_pid", "ok"}
       => /\ child_pid # 0
          /\ init_pid = ToDecimal(child_pid)
          /\ ready_msg = READY

\* C4 -- PID-file law: when create returns Ok with a pid file set, having
\* received the pid P1 sent and "ready", the file holds exactly that decimal
\* pid, whatever it held before.
C4_PidFileLaw ==
    (/\ pc0 = "ok" /\ cli.pid_file
     /\ child_pid # 0 /\ init_pid = ToDecimal(child_pid) /\ ready_msg = READY)
       => pidFile = ToDecimal(child_pid)

\* The first ten characters of an id, read off by position.
FirstTen(id) == SubSeq(id, 1, Min(Len(id), TakeLen))

\* C5 -- Create/start path agreement: whenever the id given to start has the
\* same first ten characters as the id given to create (the same id
\* included), start resolves the path P2 resolves, whatever --root is; and
\* each is the default root joined with the first ten characters of its id
\* and exec.sock.
C5_PathAgreement ==
    /\ (paths.socket_path # Null /\ startPath[1] # Null
           /\ FirstTen(startId[1]) = FirstTen(cli.container_id))
          => startPath[1] = paths.socket_path
    /\ paths.socket_path # Null
          => paths.socket_path =
                PathJoin(PathJoin(HAKO_ROOT, FirstTen(cli.container_id)), EXEC_SOCK)
    /\ startPath[1] # Null
          => startPath[1] =
                PathJoin(PathJoin(HAKO_ROOT, FirstTen(startId[1])), EXEC_SOCK)

C5_Witness ==
    /\ paths.socket_path # Null /\ startPath[1] = paths.socket_path
    /\ Len(cli.container_id) > TakeLen
    /\ startId[1] # cli.container_id
    /\ cli.root # HAKO_ROOT

\* C6 -- Runtime-root placement: the container directory and the exec socket
\* P2 resolves lie under the runtime root given with --root.
C6_RuntimeRootPlacement ==
    paths.socket_path # Null
       => /\ paths.container_root =
                PathJoin(cli.root, FirstTen(cli.container_id))
          /\ paths.socket_path =
                PathJoin(PathJoin(cli.root, FirstTen(cli.container_id)), EXEC_SOCK)

\* C7 -- FD hygiene: in the user program none of the four socketpair
\* endpoints nor the exec listening socket is open; every one of them P2
\* still holds when it calls execvp carries close-on-exec.
C7_FdHygiene ==
    /\ pc2 = "user" => fds["P2"] \cap (PairEnds \cup {"socket"}) = {}
    /\ pc2 = "execvp"
          => (fds["P2"] \cap (PairEnds \cup {"socket"})) \subseteq CloexecFds

C7_Witness ==
    /\ pc2 = "user"
    /\ "grandchild_parent_sock" \notin fds["P2"]
    /\ "conn" \in fds["P2"]

\* C8 -- Bad spec: with a config.json that cannot be read or parsed, create
\* only ever fails: no descriptor is opened, no process forked, nothing
\* created under the runtime root, and the pid file is left as it was.
BadSpec == config.file # "valid"

C8_BadSpecNoSideEffect ==
    /\ [](BadSpec => /\ pc0 \in {"parse", "err"}
                     /\ pc1 = "none" /\ pc2 = "none"
                     /\ \A p \in Procs : fds[p] = {}
                     /\ fsDirs = {} /\ fsSocks = {})
    /\ [][BadSpec => pidFile' = pidFile]_vars

C8_Witness ==
    config.file = "no_args" /\ pc0 = "err" /\ cli.pid_file /\ pidFile = NoFile

\* The exec socket cannot be reached at a path: no socket file is bound
\* there, or nothing listens on it.
Unreachable(path) == path \notin fsSocks \/ listener # "listening"

\* C9 (as stated, as what a finite run shows of it) -- once a start's connect
\* has succeeded, P2 does not end without its accept() having returned.
C9_StartLeadsToExec ==
    (\E s \in Starts : Connected(s))
       => (pc2 \notin {"exit1", "panic"} \/ Completed("accept"))

\* C9 (amended) -- with P2 scheduled fairly: whenever a start's connect has
\* succeeded, P2 eventually is the user program (accept returned, chdir and
\* execvp done) or has exited non-zero because one of its steps failed; and a
\* start whose connect finds the exec socket unreachable ends with an error.
C9_StartLeadsToExecOrExit ==
    /\ \A s \in Starts : Connected(s) ~> (pc2 = "user" \/ pc2 = "exit1")
    /\ [][\A s \in Starts :
             (pcS[s] = "connect" /\ Unreachable(startPath[s]) /\ pcS'[s] # "connect")
                => pcS'[s] = "err"]_vars

C9_Witness ==
    \E s \in Starts : /\ Connected(s) /\ pc2 = "user"
                      /\ \E t \in Starts : pcS[t] = "err" /\ startPath[t] # Null

\* C10 -- PTY broker activation: P2 runs a PTY step only with
\* process.terminal true and a console socket given; with both, it is past
\* the PTY handoff only after running all of it; in the other three
\* combinations no PTY step runs and P2 does not end in the handoff.
PtySteps == {"openpty", "console_socket", "console_addr", "console_connect",
             "sendmsg", "tiocsctty", "dup2"}

PtyActive == config.terminal /\ cli.console_socket

C10_PtyActivation ==
    /\ Range(done2) \cap PtySteps # {} => PtyActive
    /\ (PtyActive /\ Completed("mount_private")) => PtySteps \subseteq Range(done2)
    /\ ~PtyActive => pc2 # "panic"

\* Step a was completed by P2 before step b.
CompletedBefore(a, b) ==
    \E i, j \in DOMAIN done2 : i < j /\ done2[i] = a /\ done2[j] = b

\* P2 is about to send "ready", or a "ready" of P2 exists somewhere.
ReadyIssued ==
    \/ pc2 = "send_ready" \/ Completed("send_ready")
    \/ READY \in Range(chanB) \/ ready_msg = READY

\* What P2 does before send("ready"), as C11 lists it: the exec socket bound
\* at its path and listening, pivot_root and the /proc mount done.
ReadyAfterListen ==
    /\ ReadyIssued
          => /\ {"bind", "listen", "pivot_root", "mount_proc"} \subseteq Range(done2)
             /\ paths.socket_path \in fsSocks
    /\ pc2 = "send_ready" => listener = "listening"
    /\ Completed("send_ready")
          => \A step \in {"bind", "listen", "pivot_root", "mount_proc"} :
                 CompletedBefore(step, "send_ready")

\* P0's create returns Ok in this step, having received "ready" on B.
ReturnsOkOnReady == pc0 # "ok" /\ pc0' = "ok" /\ ready_msg' = READY

\* C11 (as stated) -- Ready after listen: P2 sends "ready" only after the exec
\* socket is bound at its path and listening and after pivot_root and the
\* /proc mount; and at the moment create returns Ok on a genuine "ready", a
\* listening exec socket exists.
C11_ListeningAtReturn ==
    /\ []ReadyAfterListen
    /\ [][ReturnsOkOnReady => listener' = "listening"]_vars

\* C11 (amended) -- P2 sends "ready" only after the exec socket is bound at
\* its path and listening and after pivot_root and the /proc mount; at the
\* moment create returns Ok on a genuine "ready", the exec socket is still
\* listening unless P2 has already become the user program or exited.
C11_ReadyAfterListen ==
    /\ []ReadyAfterListen
    /\ [][ReturnsOkOnReady
             => (listener' = "listening" \/ pc2' \in {"user", "exit1"})]_vars

C11_Witness ==
    pc0 = "ok" /\ ready_msg = READY /\ pc2 = "accept" /\ listener = "listening"

\* C12 -- P0 handshake order: P0's recv on A returns strictly before its recv
\* on B does, whichever of P1 and P2 sent first, and the pid file is touched
\* only after both receives have returned, never while P0 still waits on A
\* or B.
C12_HandshakeOrder ==
    /\ [](ready_msg # Null => init_pid # Null)
    /\ [](pc0 = "recv_a" => (init_pid = Null /\ ready_msg = Null))
    /\ [][init_pid' # init_pid => (ready_msg = Null /\ ready_msg' = Null)]_vars
    /\ [][pidFile' # pidFile
             => /\ init_pid # Null /\ ready_msg # Null
                /\ pc0 \notin {"recv_a", "recv_b"}]_vars

\* P0 has consumed the pid on A, and "ready", sent meanwhile, still waits on
\* B; the pid file is untouched.
C12_Witness ==
    /\ pc0 = "recv_b" /\ init_pid = ToDecimal(child_pid) /\ ready_msg = Null
    /\ READY \in Range(chanB)
    /\ cli.pid_file /\ pidFile = NoFile

\* C13 -- Namespace split: the flag set P1 passes to unshare is a subset of
\* {CLONE_NEWPID} and non-empty only if "pid" is declared; the flag set P2
\* passes never contains CLONE_NEWPID; P1's unshare is called before the fork
\* that creates P2, P2's unshare after it.
C13_NamespaceSplit ==
    /\ [](unshareArg["P1"] # NotCalled
             => /\ unshareArg["P1"] \subseteq {"CLONE_NEWPID"}
                /\ unshareArg["P1"] # {} => "pid" \in Range(config.linux))
    /\ [](unshareArg["P2"] # NotCalled
             => "CLONE_NEWPID" \notin unshareArg["P2"])
    /\ []((pc2 # "none" /\ config.linux # NoLinux)
             => unshareArg["P1"] # NotCalled)
    /\ [][unshareArg'["P1"] # unshareArg["P1"]
             => (pc2 = "none" /\ pc2' = "none")]_vars
    /\ [][unshareArg'["P2"] # unshareArg["P2"]
             => (pc2 \notin {"none", "drop_child"}
                 /\ pc1 \notin {"drop_parent", "unshare", "fork"})]_vars

\* Both calls made for a list that declares mount before pid.
C13_Witness ==
    /\ config.linux = <<"mount", "pid">>
    /\ unshareArg["P1"] = {"CLONE_NEWPID"}
    /\ unshareArg["P2"] = {"CLONE_NEWNS"}
    /\ pc2 = "accept"

\* The kernel flag of each namespace type of the runtime spec.
KernelFlag ==
    [ty \in {"pid", "network", "mount", "ipc", "uts", "user", "cgroup"} |->
        CASE ty = "pid"     -> "CLONE_NEWPID"
          [] ty = "network" -> "CLONE_NEWNET"
          [] ty = "mount"   -> "CLONE_NEWNS"
          [] ty = "ipc"     -> "CLONE_NEWIPC"
          [] ty = "uts"     -> "CLONE_NEWUTS"
          [] ty = "user"    -> "CLONE_NEWUSER"
          [] ty = "cgroup"  -> "CLONE_NEWCGROUP"]

DeclaredFlags(list) == {KernelFlag[ty] : ty \in Range(list) \cap DOMAIN KernelFlag}

\* C14 -- Namespace planner coverage: for every namespace list, the flag sets
\* of the two unshare calls together are exactly the kernel flags of the
\* declared types among pid, network, mount, ipc, uts, user, cgroup (an
\* unknown type adds nothing and takes nothing away); for the empty list
\* both flag sets are empty.
C14_PlannerCoverage ==
    /\ (unshareArg["P1"] # NotCalled /\ unshareArg["P2"] # NotCalled)
          => unshareArg["P1"] \cup unshareArg["P2"] = DeclaredFlags(config.linux)
    /\ \A p \in {"P1", "P2"} :
          (config.linux = <<>> /\ unshareArg[p] # NotCalled) => unshareArg[p] = {}

\* Both flag sets computed for a list with an unknown type next to a known one.
C14_Witness ==
    /\ config.linux = <<"bogus", "cgroup">>
    /\ unshareArg["P1"] = {}
    /\ unshareArg["P2"] = {"CLONE_NEWCGROUP"}

\* The steps of init in the order C15 gives them (the PTY handoff only with
\* process.terminal, unshare only with linux present), followed by what init
\* does after the /proc mount.
StepOrder ==
    <<"setsid">>
    \o (IF config.terminal
        THEN <<"openpty", "console_socket", "console_addr", "console_connect",
               "sendmsg", "tiocsctty", "dup2">>
        ELSE <<>>)
    \o (IF config.linux # NoLinux THEN <<"unshare">> ELSE <<>>)
    \o <<"mount_private", "mount_bind", "create_dir", "socket", "bind", "listen",
         "pivot_root", "mount_proc", "send_ready", "accept", "chdir", "execvp">>

IsPrefix(s, q) == Len(s) <= Len(q) /\ s = SubSeq(q, 1, Len(s))

\* C15 -- P2 step ordering: the steps init has completed are always an
\* initial stretch of the order setsid; PTY handoff (master fd sent, then
\* TIOCSCTTY); unshare; MS_PRIVATE remount; rootfs self-bind; container
\* directory, bind and listen of the exec socket; pivot_root; /proc mount:
\* none is skipped or reordered, and once a step has failed and init has
\* ended no further step is completed.
C15_StepOrdering ==
    /\ [](IsPrefix(done2, StepOrder))
    /\ [](pc2 \in {"none", "drop_child"} => done2 = <<>>)
    /\ [][(pc2 = "exit1" \/ pc2 = "panic") => (done2' = done2 /\ pc2' = pc2)]_vars

\* init ended at a failing pivot_root after a PTY handoff: everything up to
\* listen was done, nothing after it.
C15_Witness ==
    /\ pc2 = "exit1" /\ config.terminal
    /\ CompletedBefore("setsid", "tiocsctty")
    /\ CompletedBefore("sendmsg", "tiocsctty")
    /\ CompletedBefore("mount_private", "mount_bind")
    /\ done2[Len(done2)] = "listen"

\* This step puts a datagram on A or B (a send) or takes one off (a recv
\* returning it).
SendOrRecvStep == chanA' # chanA \/ chanB' # chanB

\* C16 (as stated) -- Endpoint partition: P1's send of the pid on A never
\* happens while P2 still holds its inherited copy of A's child end; and
\* whenever a send or recv on A or B is performed, each of the four endpoints
\* is open in exactly its designated holder.
C16_EndpointPartition ==
    /\ [][Len(chanA') > Len(chanA) => "child_parent_sock" \notin fds["P2"]]_vars
    /\ [][SendOrRecvStep
             => /\ Holders("parent_child_sock") = {"P0"}
                /\ Holders("parent_grandchild_sock") = {"P0"}
                /\ Holders("child_parent_sock") = {"P1"}
                /\ Holders("grandchild_parent_sock") = {"P2"}]_vars

\* C16 (amended) -- whenever a process is about to send or receive on A or B,
\* that process itself holds, of the four endpoints, exactly the ones it is
\* the designated holder of; P2 never holds a parent end and closes its
\* inherited copy of A's child end as its first step.
C16_OwnEndsOnly ==
    /\ pc0 \in {"recv_a", "recv_b"} => fds["P0"] \cap PairEnds = ParentEnds
    /\ pc1 = "send" => fds["P1"] \cap PairEnds = {"child_parent_sock"}
    /\ pc2 = "send_ready" => fds["P2"] \cap PairEnds = {"grandchild_parent_sock"}
    /\ fds["P2"] \cap ParentEnds = {}
    /\ pc2 \notin {"none", "drop_child"} => "child_parent_sock" \notin fds["P2"]

\* P1 has sent the pid on A while P2 still holds its copy of A's child end.
C16_Witness ==
    /\ pc1 = "return_ok" /\ chanA = <<ToDecimal(child_pid)>>
    /\ pc2 = "drop_child" /\ "child_parent_sock" \in fds["P2"]

\* C17 -- IpcChannel.recv on peer close: a recv of P0 returns Ok (P0 goes on
\* past the `?`) only when a datagram was pending, and then with exactly that
\* datagram's bytes; with the peer endpoint closed everywhere and nothing
\* pending it does not return Ok.
C17_RecvOnPeerClose ==
    /\ [][(pc0 = "recv_a" /\ pc0' = "recv_b")
             => (chanA # <<>> /\ init_pid' = Head(chanA))]_vars
    /\ [][(pc0 = "recv_b" /\ (pc0' = "open_pid" \/ pc0' = "ok"))
             => (chanB # <<>> /\ ready_msg' = Head(chanB))]_vars

\* C18 -- State at create's return: at the step in which P0's create returns
\* Ok, P1 has exited with status 0 after sending P2's pid on A, and P2 is
\* blocked in accept() on the listening exec socket, neither exited nor past
\* execvp.
C18_StateAtReturn ==
    [][(pc0 # "ok" /\ pc0' = "ok")
          => /\ pc1' = "exit0"
             /\ child_pid' # 0 /\ init_pid' = ToDecimal(child_pid')
             /\ pc2' = "accept" /\ listener' = "listening"]_vars

\* How often P2 completed a step.
TimesCompleted(step) == Cardinality({i \in DOMAIN done2 : done2[i] = step})

\* P2 is the user program or has ended.
P2Gone == pc2 \in {"user", "exit1", "panic"}

\* P2 accepts at most one connection and execs at most once; a connect
\* attempted once P2 is the user program or has ended fails.
SingleAcceptAndExec ==
    /\ [](Len(accepted) <= 1)
    /\ [](TimesCompleted("accept") <= 1 /\ TimesCompleted("execvp") <= 1)
    /\ [][\A s \in Starts :
             (P2Gone /\ pcS[s] = "connect" /\ pcS'[s] # "connect")
                => pcS'[s] = "err"]_vars

\* create returned Ok after the pid P1 sent and P2's "ready".
CreatedOk ==
    pc0 = "ok" /\ child_pid # 0 /\ init_pid = ToDecimal(child_pid) /\ ready_msg = READY

C20_CreateReturns ==
    /\ <>(pc0 \in {"ok", "err"})
    /\ [](pc2 \notin {"none", "drop_child"} => "child_parent_sock" \notin fds["P2"])
    /\ [](pc1 \in {"send", "return_ok"} => "grandchild_parent_sock" \notin fds["P1"])

\* P2 ended without sending "ready" and create has returned all the same.
C20_Witness ==
    /\ pc0 \in {"ok", "err"}
    /\ pc2 \in {"exit1", "panic"} /\ ~Completed("send_ready")
    /\ ready_msg = <<>>

====
